---- MODULE Spec2Model ----
(***************************************************************************)
(* Resume analyzer core (Hack/analyze.py): extraction strategy chain,      *)
(* text cleaner, robust tokenizer, detector and scorer.                    *)
(*                                                                         *)
(* A Python str is modelled as a sequence of characters; a character is a  *)
(* one-character string, the non-ASCII ones carry a name ("NBSP", ...).    *)
(* Three specifications exercise the three units of the core:             *)
(*   SpecClean    _clean_extracted_text on multi-line documents            *)
(*   SpecAnalyze  analyze_resume on resume texts                           *)
(*   SpecExtract  extract_text_auto on files and engine behaviours         *)
(***************************************************************************)
EXTENDS Integers, Sequences, FiniteSets, TLC

VARIABLES
    raw_text,      \* SpecClean: argument of _clean_extracted_text
    cpc,           \* SpecClean: "raw" -> "cleaned" -> "recleaned"
    filtered,      \* SpecClean: the list `filtered` built by the first call
    cleaned,       \* SpecClean: result of the first call
    recleaned,     \* SpecClean: result of cleaning the first result again
    text,          \* SpecAnalyze: argument of analyze_resume
    apc,           \* SpecAnalyze: "input" -> "done"
    result,        \* SpecAnalyze: the returned tuple and the locals at return
    path,          \* SpecExtract: file name given to extract_text_auto
    doc,           \* SpecExtract: pages of the file as fitz opens it
    fitz_installed,\* SpecExtract: whether `import fitz` succeeds
    pc,            \* SpecExtract: position in extract_text_auto
    tried,         \* SpecExtract: strategies run so far, with what each produced
    ocr_texts,     \* SpecExtract: the list `ocr_texts`
    ocr_pages,     \* SpecExtract: indices of the pages OCRed, in order
    ocr_i,         \* SpecExtract: loop variable i of the OCR loop
    max_pages,     \* SpecExtract: the local max_pages
    ret            \* SpecExtract: what extract_text_auto returned or raised

cleanVars == <<raw_text, cpc, filtered, cleaned, recleaned>>
analyzeVars == <<text, apc, result>>
extractVars == <<path, doc, fitz_installed, pc, tried, ocr_texts, ocr_pages, ocr_i, max_pages, ret>>
vars == <<cleanVars, analyzeVars, extractVars>>

----------------------------------------------------------------------------
(* Characters *)

LF == "\n"
CR == "\r"
TAB == "\t"
SP == " "
NBSP == "NBSP"

\* characters str.strip() and the regex class \s treat as whitespace
Whitespace == {SP, TAB, LF, CR, NBSP}

IsSpace(c) == c \in Whitespace

\* bound of the documents of SpecClean
MaxLines == 7

----------------------------------------------------------------------------
(* str helpers *)

Indices(s) == [i \in 1..Len(s) |-> i]

\* s.replace("\r\n", "\n")
ReplaceCRLF(s) ==
    LET keep == SelectSeq(Indices(s),
                    LAMBDA i : ~(s[i] = CR /\ i < Len(s) /\ s[i + 1] = LF))
    IN  [k \in 1..Len(keep) |-> s[keep[k]]]

\* s.replace("\r", "\n")
ReplaceCR(s) == [i \in 1..Len(s) |-> IF s[i] = CR THEN LF ELSE s[i]]

\* s.split("\n")
SplitLF(s) ==
    LET seps == SelectSeq(Indices(s), LAMBDA i : s[i] = LF)
        m == Len(seps)
    IN  [k \in 1..(m + 1) |->
            SubSeq(s, IF k = 1 THEN 1 ELSE seps[k - 1] + 1,
                      IF k = m + 1 THEN Len(s) ELSE seps[k] - 1)]

\* s.strip()
Strip(s) ==
    LET ns == SelectSeq(Indices(s), LAMBDA i : ~IsSpace(s[i]))
    IN  IF ns = <<>> THEN <<>> ELSE SubSeq(s, ns[1], ns[Len(ns)])

\* sep.join(parts)
RECURSIVE Join(_, _)
Join(parts, sep) ==
    IF parts = <<>> THEN <<>>
    ELSE IF Len(parts) = 1 THEN parts[1]
    ELSE Join(SubSeq(parts, 1, Len(parts) - 1), sep) \o sep \o parts[Len(parts)]

\* re.sub(r"[class]+", " ", s): every maximal run of class characters becomes one space
CollapseRuns(s, class) ==
    LET keep == SelectSeq(Indices(s),
                    LAMBDA i : s[i] \notin class \/ i = 1 \/ s[i - 1] \notin class)
    IN  [k \in 1..Len(keep) |-> IF s[keep[k]] \in class THEN SP ELSE s[keep[k]]]

\* Counter(ln for ln in lines if ln)[ln]
LineCount(lines, ln) == Cardinality({k \in 1..Len(lines) : lines[k] = ln})

----------------------------------------------------------------------------
(* _clean_extracted_text *)

RepeatMin == 6
ShortLineMax == 80

TrimmedLines(raw) ==
    LET unified == ReplaceCR(ReplaceCRLF(raw))
        split == SplitLF(unified)
    IN  [k \in 1..Len(split) |-> Strip(split[k])]

\* variant: a line must repeat more than RepeatMin times to be dropped
DropLine_strict(lines, ln) == LineCount(lines, ln) > RepeatMin /\ Len(ln) <= ShortLineMax

DropLine(lines, ln) == LineCount(lines, ln) >= RepeatMin /\ Len(ln) <= ShortLineMax

FilterLines(lines) ==
    SelectSeq(lines, LAMBDA ln : ln # <<>> /\ ~DropLine(lines, ln))

\* variant: only tab/NBSP runs are collapsed, line breaks stay
CollapseText_tabs_only(s) == Strip(CollapseRuns(s, {TAB, NBSP}))

CollapseText(s) == Strip(CollapseRuns(CollapseRuns(s, {TAB, NBSP}), Whitespace))

\* the list `filtered` of a non-empty input
Filtered(raw) == FilterLines(TrimmedLines(raw))

_clean_extracted_text(raw) ==
    IF raw = <<>> THEN <<>>
    ELSE CollapseText(Join(Filtered(raw), <<LF>>))

----------------------------------------------------------------------------
(* Character classes and case mapping used by the tokenizer and detector *)

LowerCase == {"a", "b", "c", "d", "e", "f", "g", "h", "i", "j", "k", "l", "m",
              "n", "o", "p", "q", "r", "s", "t", "u", "v", "w", "x", "y", "z"}
UpperCase == {"A", "B", "C", "D", "E", "F", "G", "H", "I", "J", "K", "L", "M",
              "N", "O", "P", "Q", "R", "S", "T", "U", "V", "W", "X", "Y", "Z"}
Digits == {"0", "1", "2", "3", "4", "5", "6", "7", "8", "9"}

BULLET == "BULLET"
ENDASH == "ENDASH"
EMDASH == "EMDASH"

ToLower == [c \in UpperCase |->
    CASE c = "A" -> "a" [] c = "B" -> "b" [] c = "C" -> "c" [] c = "D" -> "d"
      [] c = "E" -> "e" [] c = "F" -> "f" [] c = "G" -> "g" [] c = "H" -> "h"
      [] c = "I" -> "i" [] c = "J" -> "j" [] c = "K" -> "k" [] c = "L" -> "l"
      [] c = "M" -> "m" [] c = "N" -> "n" [] c = "O" -> "o" [] c = "P" -> "p"
      [] c = "Q" -> "q" [] c = "R" -> "r" [] c = "S" -> "s" [] c = "T" -> "t"
      [] c = "U" -> "u" [] c = "V" -> "v" [] c = "W" -> "w" [] c = "X" -> "x"
      [] c = "Y" -> "y" [] c = "Z" -> "z"]

\* s.lower()
Lower(s) == [i \in 1..Len(s) |-> IF s[i] \in UpperCase THEN ToLower[s[i]] ELSE s[i]]

\* k in s, for a non-empty k
Contains(s, k) ==
    \E i \in 1..(Len(s) - Len(k) + 1) : \A j \in 1..Len(k) : s[i + j - 1] = k[j]

\* any(k in s for k in terms)
ContainsAny(s, terms) == \E n \in 1..Len(terms) : Contains(s, terms[n])

\* the character class [A-Za-z0-9...] of the tokenizer pattern
IsAlnum(c) == c \in LowerCase \cup UpperCase \cup Digits

\* A match of  [alnum]+(?:[-'][alnum]+)*  starts at i when s[i] is alphanumeric
\* and the match before it cannot have consumed it: s[i-1] is not alphanumeric
\* and is not a hyphen/apostrophe glued to an alphanumeric s[i-2].
TokenStart(s, i) ==
    /\ IsAlnum(s[i])
    /\ i > 1 => ~IsAlnum(s[i - 1])
    /\ i > 2 => ~(s[i - 1] \in {"-", "'"} /\ IsAlnum(s[i - 2]))

\* len(re.findall(pattern, text))
_count_words_robust(s) ==
    IF s = <<>> THEN 0 ELSE Len(SelectSeq(Indices(s), LAMBDA i : TokenStart(s, i)))

----------------------------------------------------------------------------
(* Vocabularies of analyze_resume *)

keywords == <<
    <<"p", "y", "t", "h", "o", "n">>,
    <<"j", "a", "v", "a">>,
    <<"j", "a", "v", "a", "s", "c", "r", "i", "p", "t">>,
    <<"t", "y", "p", "e", "s", "c", "r", "i", "p", "t">>,
    <<"s", "q", "l">>,
    <<"r", "e", "a", "c", "t">>,
    <<"n", "o", "d", "e">>,
    <<"a", "w", "s">>,
    <<"a", "z", "u", "r", "e">>,
    <<"g", "c", "p">>,
    <<"d", "o", "c", "k", "e", "r">>,
    <<"k", "u", "b", "e", "r", "n", "e", "t", "e", "s">>,
    <<"g", "r", "a", "p", "h", "q", "l">>,
    <<"r", "e", "s", "t">>,
    <<"d", "a", "t", "a">>,
    <<"m", "a", "c", "h", "i", "n", "e", " ", "l", "e", "a", "r", "n", "i", "n", "g">>,
    <<"n", "l", "p">>,
    <<"g", "i", "t">>,
    <<"p", "a", "n", "d", "a", "s">>,
    <<"n", "u", "m", "p", "y">>,
    <<"d", "j", "a", "n", "g", "o">>,
    <<"f", "l", "a", "s", "k">> >>

action_verbs == <<
    <<"l", "e", "d">>,
    <<"i", "m", "p", "l", "e", "m", "e", "n", "t", "e", "d">>,
    <<"b", "u", "i", "l", "t">>,
    <<"c", "r", "e", "a", "t", "e", "d">>,
    <<"d", "e", "s", "i", "g", "n", "e", "d">>,
    <<"d", "e", "v", "e", "l", "o", "p", "e", "d">>,
    <<"o", "p", "t", "i", "m", "i", "z", "e", "d">>,
    <<"i", "m", "p", "r", "o", "v", "e", "d">>,
    <<"l", "a", "u", "n", "c", "h", "e", "d">>,
    <<"d", "e", "l", "i", "v", "e", "r", "e", "d">>,
    <<"a", "u", "t", "o", "m", "a", "t", "e", "d">>,
    <<"r", "e", "f", "a", "c", "t", "o", "r", "e", "d">>,
    <<"m", "i", "g", "r", "a", "t", "e", "d">>,
    <<"c", "o", "l", "l", "a", "b", "o", "r", "a", "t", "e", "d">>,
    <<"m", "e", "n", "t", "o", "r", "e", "d">>,
    <<"a", "n", "a", "l", "y", "z", "e", "d">>,
    <<"d", "e", "p", "l", "o", "y", "e", "d">>,
    <<"c", "o", "n", "f", "i", "g", "u", "r", "e", "d">>,
    <<"d", "e", "b", "u", "g", "g", "e", "d">>,
    <<"r", "e", "s", "o", "l", "v", "e", "d">> >>

education_terms == <<
    <<"e", "d", "u", "c", "a", "t", "i", "o", "n">>,
    <<"b", "a", "c", "h", "e", "l", "o", "r">>,
    <<"m", "a", "s", "t", "e", "r">>,
    <<"u", "n", "i", "v", "e", "r", "s", "i", "t", "y">>,
    <<"d", "e", "g", "r", "e", "e">> >>

experience_terms == <<
    <<"e", "x", "p", "e", "r", "i", "e", "n", "c", "e">>,
    <<"w", "o", "r", "k">>,
    <<"i", "n", "t", "e", "r", "n", "s", "h", "i", "p">>,
    <<"e", "m", "p", "l", "o", "y", "m", "e", "n", "t">> >>

skills_terms == << <<"s", "k", "i", "l", "l", "s">> >>

projects_terms == <<
    <<"p", "r", "o", "j", "e", "c", "t", "s">>,
    <<"p", "r", "o", "j", "e", "c", "t">> >>

bullet_glyphs == << <<BULLET>>, <<"-", SP>>, <<SP, ENDASH, SP>>, <<EMDASH, SP>> >>

----------------------------------------------------------------------------
(* Detector: the signals analyze_resume reads off the normalized text *)

sections_present(normalized) ==
    [education  |-> ContainsAny(normalized, education_terms),
     experience |-> ContainsAny(normalized, experience_terms),
     skills     |-> ContainsAny(normalized, skills_terms),
     projects   |-> ContainsAny(normalized, projects_terms),
     bullets    |-> ContainsAny(normalized, bullet_glyphs)]

\* variant: every occurrence of a keyword counts
keyword_hits_occurrences(normalized) ==
    Cardinality({p \in (1..Len(keywords)) \X (1..Len(normalized)) :
        /\ p[2] + Len(keywords[p[1]]) - 1 <= Len(normalized)
        /\ \A j \in 1..Len(keywords[p[1]]) : normalized[p[2] + j - 1] = keywords[p[1]][j]})

\* sum(1 for k in keywords if k in normalized)
keyword_hits(normalized) ==
    Cardinality({n \in 1..Len(keywords) : Contains(normalized, keywords[n])})

\* sum(1 for v in action_verbs if f" {v} " in f" {normalized} ")
action_hits(normalized) ==
    LET padded == <<SP>> \o normalized \o <<SP>>
    IN  Cardinality({n \in 1..Len(action_verbs) :
            Contains(padded, <<SP>> \o action_verbs[n] \o <<SP>>)})

----------------------------------------------------------------------------
(* Scorer.  The float sub-scores are kept as exact fractions n/d; round() is *)
(* Python's round-half-to-even.                                              *)

Min(a, b) == IF a < b THEN a ELSE b
Max(a, b) == IF a > b THEN a ELSE b

Frac(n, d) == [n |-> n, d |-> d]
FracAdd(x, y) == Frac(x.n * y.d + y.n * x.d, x.d * y.d)

\* int(round(x)) for x >= 0
Round(x) ==
    LET q == x.n \div x.d
        r == x.n % x.d
    IN  IF 2 * r < x.d THEN q
        ELSE IF 2 * r > x.d THEN q + 1
        ELSE IF q % 2 = 0 THEN q ELSE q + 1

\* variant: the keyword ratio is not capped at 1.0
keywords_score_uncapped(kh) == Frac(kh * 40, 10)

\* min(1.0, keyword_hits / 10.0) * 40
keywords_score(kh) == Frac(Min(10, kh) * 40, 10)

structure_components == {"education", "experience", "skills", "projects"}

\* sum(1 for k, v in sections_present.items() if k in structure_components and v)
structure_hits(sections) == Cardinality({k \in structure_components : sections[k]})

\* (structure_hits / 4.0) * 20
structure_score(sh) == Frac(sh * 20, 4)

\* variant: the verbs are counted against the whole vocabulary
action_score_of_vocabulary(ah) == Frac(Min(ah, 20) * 20, 20)

\* min(action_hits, 10) / 10.0 * 20
action_score(ah) == Frac(Min(ah, 10) * 20, 10)

word_count_score(wc) ==
    IF 350 <= wc /\ wc <= 600 THEN Frac(20, 1)
    ELSE IF 250 <= wc /\ wc <= 800 THEN Frac(10, 1)
    ELSE Frac(0, 1)

\* int(round(keywords_score + structure_score + action_score + word_count_score))
total(kh, sh, ah, wc) ==
    Round(FracAdd(FracAdd(FracAdd(keywords_score(kh), structure_score(sh)),
                          action_score(ah)), word_count_score(wc)))

Details(kh, sh, ah, wc) ==
    [keyword_hits          |-> kh,
     action_verbs          |-> ah,
     word_count            |-> wc,
     sections_present      |-> sh,
     score_keywords_40     |-> Round(keywords_score(kh)),
     score_structure_20    |-> Round(structure_score(sh)),
     score_action_verbs_20 |-> Round(action_score(ah)),
     score_word_count_20   |-> Round(word_count_score(wc))]

\* The suggestion strings, by their leading words
SuggestKeywords == "Skills and keywords"
SuggestSection ==
    [education  |-> "Structure: Add a Education section",
     experience |-> "Structure: Add a Experience section",
     skills     |-> "Structure: Add a Skills section",
     projects   |-> "Structure: Add a Projects section"]
SuggestImpact == "Impact language"
SuggestLength == "Length"
SuggestBullets == "Readability"

\* variant: the sections are visited last to first
structure_order_reversed == <<"projects", "skills", "experience", "education">>

structure_order == <<"education", "experience", "skills", "projects">>

\* the list `suggestions` before it is cut
Suggestions(kh, sections, ah, wc) ==
    (IF kh < 6 THEN <<SuggestKeywords>> ELSE <<>>)
    \o [k \in 1..Len(SelectSeq(structure_order, LAMBDA sec : ~sections[sec])) |->
            SuggestSection[SelectSeq(structure_order, LAMBDA sec : ~sections[sec])[k]]]
    \o (IF ah < 5 THEN <<SuggestImpact>> ELSE <<>>)
    \o (IF ~(350 <= wc /\ wc <= 600) THEN <<SuggestLength>> ELSE <<>>)
    \o (IF ~sections.bullets THEN <<SuggestBullets>> ELSE <<>>)

\* variant: one suggestion too many is kept
Top3_keeps_four(s) == SubSeq(s, 1, Min(4, Len(s)))

\* suggestions[:3]
Top3(s) == SubSeq(s, 1, Min(3, Len(s)))

\* analyze_resume(text): the returned (score, details, suggestions) together
\* with the locals the return value is computed from
analyze_resume(t) ==
    LET cleanedText == _clean_extracted_text(t)
        normalized == Lower(cleanedText)
        wc == _count_words_robust(cleanedText)
        sections == sections_present(normalized)
        kh == keyword_hits(normalized)
        ah == action_hits(normalized)
        sh == structure_hits(sections)
        tot == total(kh, sh, ah, wc)
        all == Suggestions(kh, sections, ah, wc)
    IN  [score       |-> Max(0, Min(100, tot)),
         details     |-> Details(kh, sh, ah, wc),
         suggestions |-> Top3(all),
         sections    |-> sections,
         total       |-> tot,
         generated   |-> all]

----------------------------------------------------------------------------
(* SpecClean: _clean_extracted_text on documents of up to MaxLines lines, *)
(* each line one of LineKinds (line content and its line terminator).     *)

Rep(c, n) == [i \in 1..n |-> c]

LineKinds == <<
    <<SP, "a", SP>> \o Rep("h", ShortLineMax - 3) \o <<"b", TAB, CR, LF>>,
    <<"a", TAB>> \o Rep("h", ShortLineMax - 3) \o <<"b", LF>>,
    Rep("f", ShortLineMax + 1) \o <<CR>> >>

RECURSIVE Documents(_)
Documents(n) ==
    IF n = 0 THEN {<<>>}
    ELSE LET shorter == Documents(n - 1)
         IN  shorter \cup {d \o LineKinds[k] : d \in shorter, k \in 1..Len(LineKinds)}

AnalyzeIdle == text = <<>> /\ apc = "idle" /\ result = <<>>

ExtractIdle ==
    /\ path = <<>> /\ doc = <<>> /\ fitz_installed = FALSE /\ pc = "idle"
    /\ tried = <<>> /\ ocr_texts = <<>> /\ ocr_pages = <<>> /\ ocr_i = 0 /\ max_pages = 0
    /\ ret = <<>>

InitClean ==
    /\ raw_text \in Documents(MaxLines)
    /\ cpc = "raw"
    /\ filtered = <<>>
    /\ cleaned = <<>>
    /\ recleaned = <<>>
    /\ AnalyzeIdle
    /\ ExtractIdle

CleanFirst ==
    /\ cpc = "raw"
    /\ filtered' = (IF raw_text = <<>> THEN <<>> ELSE Filtered(raw_text))
    /\ cleaned' = _clean_extracted_text(raw_text)
    /\ cpc' = "cleaned"
    /\ UNCHANGED <<raw_text, recleaned, analyzeVars, extractVars>>

CleanAgain ==
    /\ cpc = "cleaned"
    /\ recleaned' = _clean_extracted_text(cleaned)
    /\ cpc' = "recleaned"
    /\ UNCHANGED <<raw_text, filtered, cleaned, analyzeVars, extractVars>>

NextClean == CleanFirst \/ CleanAgain

SpecClean == InitClean /\ [][NextClean]_vars

----------------------------------------------------------------------------
(* SpecAnalyze: analyze_resume on resume texts.  A resume text has a       *)
(* heading line per chosen section, a line with the first nk keywords, a   *)
(* (bulleted) line with the first na action verbs and filler words up to a *)
(* target word count.                                                      *)

MaxWords == 801

Heading ==
    [education  |-> <<"E", "d", "u", "c", "a", "t", "i", "o", "n">>,
     experience |-> <<"E", "X", "P", "E", "R", "I", "E", "N", "C", "E">>,
     skills     |-> <<"S", "k", "i", "l", "l", "s">>,
     projects   |-> <<"P", "r", "o", "j", "e", "c", "t", "s">>]

NkChoices == {0, 5, 6, 12, Len(keywords)}
NaChoices == {0, 4, 5, 8, Len(action_verbs)}
WordTargets == {0, 249, 250, 349, 350, 500, 600, 601, 800, MaxWords}

Choice(secs, nk, na, bul, target) ==
    [secs |-> secs, nk |-> nk, na |-> na, bul |-> bul, target |-> target]

\* every vocabulary coverage, short and mid-length resumes
CoverageChoices ==
    {Choice(secs, nk, na, TRUE, target) :
        secs \in {{}, structure_components}, nk \in NkChoices, na \in NaChoices,
        target \in {0, 500}}

\* every word-count band edge
LengthChoices ==
    {Choice(secs, n[1], n[2], FALSE, target) :
        secs \in {{}, structure_components},
        n \in {<<0, 0>>, <<Len(keywords), Len(action_verbs)>>},
        target \in WordTargets}

\* every combination of suggestion triggers
SuggestionChoices ==
    {Choice(secs, nk, na, bul, target) :
        secs \in SUBSET structure_components, nk \in {5, 6}, na \in {4, 5},
        bul \in BOOLEAN, target \in {0, 350}}

ResumeChoices == CoverageChoices \cup LengthChoices \cup SuggestionChoices

ResumeText(secs, nk, na, bul, target) ==
    LET heads == SelectSeq(structure_order, LAMBDA sec : sec \in secs)
        headLines == [k \in 1..Len(heads) |-> Heading[heads[k]]]
        kwLine == Join(SubSeq(keywords, 1, nk), <<SP>>)
        verbLine == (IF bul THEN <<BULLET, SP>> ELSE <<>>)
                    \o Join(SubSeq(action_verbs, 1, na), <<SP>>)
        words == Len(heads) + _count_words_robust(kwLine) + na
        nfill == Max(0, target - words)
        filler == [i \in 1..(2 * nfill - 1) |-> IF i % 2 = 1 THEN "z" ELSE SP]
        lines == headLines \o <<kwLine, verbLine, filler>>
    IN  Join(SelectSeq(lines, LAMBDA ln : ln # <<>>), <<CR, LF>>)

CleanIdle ==
    raw_text = <<>> /\ cpc = "idle" /\ filtered = <<>> /\ cleaned = <<>> /\ recleaned = <<>>

InitAnalyze ==
    /\ \E c \in ResumeChoices : text = ResumeText(c.secs, c.nk, c.na, c.bul, c.target)
    /\ apc = "input"
    /\ result = <<>>
    /\ CleanIdle
    /\ ExtractIdle

Analyze ==
    /\ apc = "input"
    /\ result' = analyze_resume(text)
    /\ apc' = "done"
    /\ UNCHANGED <<text, cleanVars, extractVars>>

NextAnalyze == Analyze

SpecAnalyze == InitAnalyze /\ [][NextAnalyze]_vars

----------------------------------------------------------------------------
(* Extraction strategy chain.  What an engine call gives back is a value    *)
(* [kind, str]: it raises, returns None, or returns a str.                  *)

Raises == [kind |-> "raise", str |-> <<>>]
None == [kind |-> "none", str |-> <<>>]
Str(s) == [kind |-> "str", str |-> s]

\* v or ""
OrEmpty(v) == IF v.kind = "str" THEN v.str ELSE <<>>

\* what a call of the program leaves: a returned str, or an exception
Returned(s) == [raised |-> FALSE, value |-> s]
Raised == [raised |-> TRUE, value |-> <<>>]

\* len(s.split())
SplitCount(s) ==
    Len(SelectSeq(Indices(s), LAMBDA i : ~IsSpace(s[i]) /\ (i = 1 \/ IsSpace(s[i - 1]))))

FitzMinWords == 50
PlumberMinWords == 20
MinerMinWords == 20
OcrPageCap == 3
OcrEnoughWords == 150

\* n words, one to a line
Words(n) == [i \in 1..(2 * n) |-> IF i % 2 = 1 THEN "w" ELSE LF]

\* Path(path).suffix of a bare file name: from the last dot on, unless the
\* dot is the first or the last character of the name
Suffix(name) ==
    LET dots == SelectSeq(Indices(name), LAMBDA i : name[i] = ".")
    IN  IF dots = <<>> THEN <<>>
        ELSE LET i == dots[Len(dots)]
             IN  IF 1 < i /\ i < Len(name) THEN SubSeq(name, i, Len(name)) ELSE <<>>

PdfSuffix == <<".", "p", "d", "f">>
ImageSuffixes == {<<".", "j", "p", "g">>, <<".", "j", "p", "e", "g">>, <<".", "p", "n", "g">>}
DocxSuffix == <<".", "d", "o", "c", "x">>

\* where extract_text_auto sends a path
Dispatch(p) ==
    LET suffix == Lower(Suffix(p))
    IN  IF suffix = PdfSuffix THEN "fitz"
        ELSE IF suffix \in ImageSuffixes THEN "image"
        ELSE IF suffix = DocxSuffix THEN "docx"
        ELSE "unknown"

\* "\n".join(b[4] for b in blocks if len(b) >= 5 and isinstance(b[4], str))
BlockText(blocks) ==
    LET usable == SelectSeq(blocks, LAMBDA b : Len(b) >= 5 /\ b[5].kind = "str")
    IN  Join([k \in 1..Len(usable) |-> usable[k][5].str], <<LF>>)

\* the text one page adds to `texts` (empty: nothing is appended)
PageText(page) ==
    LET t == IF OrEmpty(page.layout) # <<>> THEN OrEmpty(page.layout)
             ELSE OrEmpty(page.plain)
    IN  IF t # <<>> THEN t ELSE BlockText(page.blocks)

\* text_joined of the PyMuPDF strategy
FitzText(pages) ==
    Join(SelectSeq([k \in 1..Len(pages) |-> PageText(pages[k])], LAMBDA t : t # <<>>), <<LF>>)

\* text_joined2 of the pdfplumber strategy, from page.extract_text() of each page
PlumberText(extracted) ==
    Join(SelectSeq([k \in 1..Len(extracted) |-> OrEmpty(extracted[k])], LAMBDA t : t # <<>>), <<LF>>)

\* variant: a text with exactly the minimum of words is rejected
Accepted_strict(t, least) == SplitCount(t) > least

\* a strategy's text is returned when it has at least `least` words
Accepted(t, least) == SplitCount(t) >= least

\* variant: every page of the document is OCRed
MaxPagesOf_uncapped(pages) == Len(pages)

\* max_pages = min(3, len(doc))
MaxPagesOf(pages) == Min(OcrPageCap, Len(pages))

\* the early exit test of the OCR loop
OcrEnough(texts) == SplitCount(Join(texts, <<SP>>)) >= OcrEnoughWords

\* variant: the failure of an extractor reaches the caller
OnFailure_propagates == Raised

\* what a failed extractor call gives its caller: every except clause returns ""
OnFailure == Returned(<<>>)

----------------------------------------------------------------------------
(* SpecExtract: extract_text_auto on a file, under every engine behaviour *)

MaxPages == 4

Block(s) == <<Str(<<"0">>), Str(<<"0">>), Str(<<"0">>), Str(<<"0">>), s, Str(<<"0">>), Str(<<"0">>)>>

\* a page with a text layer; a scanned page whose text only the blocks give;
\* a scanned page without any text
PageKinds == <<
    [layout |-> Str(Words(25)), plain |-> Str(Words(25)), blocks |-> <<>>,
     ocr |-> Str(Words(75))],
    [layout |-> Str(<<>>), plain |-> None,
     blocks |-> <<Block(Str(Words(6))), <<Str(<<"0">>)>>, Block(None), Block(Str(Words(4)))>>,
     ocr |-> Str(Words(150))],
    [layout |-> None, plain |-> Str(<<>>), blocks |-> <<>>,
     ocr |-> Str(Words(40))] >>

RECURSIVE PdfDocs(_)
PdfDocs(n) ==
    IF n = 0 THEN {<<>>}
    ELSE LET shorter == PdfDocs(n - 1)
         IN  shorter \cup {d \o <<PageKinds[k]>> : d \in shorter, k \in 1..Len(PageKinds)}

PdfNames == {<<"r", ".", "p", "d", "f">>, <<"r", ".", "v", "2", ".", "P", "d", "F">>}

OtherNames == {
    <<"r", ".", "j", "p", "g">>, <<"r", ".", "J", "P", "E", "G">>, <<"r", ".", "p", "n", "g">>,
    <<"r", ".", "D", "o", "c", "x">>, <<"r", ".", "t", "x", "t">>, <<"r", ".", "d", "o", "c">>,
    <<".", "p", "d", "f">>, <<"r", "p", "d", "f", ".">>, <<"r">>, <<>> }

PlumberOutcomes == {Raises} \cup
    {[kind |-> "pages", pages |-> <<Str(Words(19))>>],
     [kind |-> "pages", pages |-> <<Str(Words(12)), None, Str(<<>>), Str(Words(8))>>],
     [kind |-> "pages", pages |-> <<>>]}

MinerOutcomes == {Raises, None, Str(Words(19)), Str(Words(20))}

OcrOutcomes == {Raises, None, Str(Words(30))}

Attempt(strategy, completed, t) == [strategy |-> strategy, completed |-> completed, text |-> t]

InitExtract ==
    /\ \/ path \in PdfNames /\ doc \in PdfDocs(MaxPages) /\ fitz_installed \in BOOLEAN
       \/ path \in OtherNames /\ doc = <<>> /\ fitz_installed = TRUE
    /\ pc = "dispatch"
    /\ tried = <<>>
    /\ ocr_texts = <<>>
    /\ ocr_pages = <<>>
    /\ ocr_i = 0
    /\ max_pages = 0
    /\ ret = Returned(<<>>)
    /\ CleanIdle
    /\ AnalyzeIdle

\* extract_text_auto: dispatch on the lowercased suffix
DispatchPath ==
    /\ pc = "dispatch"
    /\ IF Dispatch(path) = "unknown"
       THEN pc' = "returned" /\ ret' = Returned(<<>>)
       ELSE pc' = Dispatch(path) /\ ret' = ret
    /\ UNCHANGED <<path, doc, fitz_installed, tried, ocr_texts, ocr_pages, ocr_i, max_pages>>
    /\ UNCHANGED <<cleanVars, analyzeVars>>

\* extract_text_from_pdf, PyMuPDF strategy
TryFitz ==
    /\ pc = "fitz"
    /\ \E fails \in BOOLEAN :
         IF fails \/ ~fitz_installed
         THEN /\ tried' = Append(tried, Attempt("fitz", FALSE, <<>>))
              /\ pc' = "plumber"
              /\ ret' = ret
         ELSE /\ tried' = Append(tried, Attempt("fitz", TRUE, FitzText(doc)))
              /\ IF Accepted(FitzText(doc), FitzMinWords)
                 THEN pc' = "returned" /\ ret' = Returned(FitzText(doc))
                 ELSE pc' = "plumber" /\ ret' = ret
    /\ UNCHANGED <<path, doc, fitz_installed, ocr_texts, ocr_pages, ocr_i, max_pages>>
    /\ UNCHANGED <<cleanVars, analyzeVars>>

\* extract_text_from_pdf, pdfplumber strategy
TryPlumber ==
    /\ pc = "plumber"
    /\ \E outcome \in PlumberOutcomes :
         IF outcome.kind = "raise"
         THEN /\ tried' = Append(tried, Attempt("plumber", FALSE, <<>>))
              /\ pc' = "miner"
              /\ ret' = ret
         ELSE /\ tried' = Append(tried, Attempt("plumber", TRUE, PlumberText(outcome.pages)))
              /\ IF Accepted(PlumberText(outcome.pages), PlumberMinWords)
                 THEN pc' = "returned" /\ ret' = Returned(PlumberText(outcome.pages))
                 ELSE pc' = "miner" /\ ret' = ret
    /\ UNCHANGED <<path, doc, fitz_installed, ocr_texts, ocr_pages, ocr_i, max_pages>>
    /\ UNCHANGED <<cleanVars, analyzeVars>>

\* extract_text_from_pdf, pdfminer strategy
TryMiner ==
    /\ pc = "miner"
    /\ \E outcome \in MinerOutcomes :
         IF outcome.kind = "raise"
         THEN /\ tried' = Append(tried, Attempt("miner", FALSE, <<>>))
              /\ pc' = "ocr_setup"
              /\ ret' = ret
         ELSE /\ tried' = Append(tried, Attempt("miner", TRUE, OrEmpty(outcome)))
              /\ IF Accepted(OrEmpty(outcome), MinerMinWords)
                 THEN pc' = "returned" /\ ret' = Returned(OrEmpty(outcome))
                 ELSE pc' = "ocr_setup" /\ ret' = ret
    /\ UNCHANGED <<path, doc, fitz_installed, ocr_texts, ocr_pages, ocr_i, max_pages>>
    /\ UNCHANGED <<cleanVars, analyzeVars>>

\* extract_text_from_pdf, OCR: imports, Tesseract check, fitz.open, max_pages
OcrSetup ==
    /\ pc = "ocr_setup"
    /\ \E setup \in {"import fails", "no tesseract", "open fails", "ready"} :
         IF setup # "ready" \/ ~fitz_installed
         THEN /\ tried' = Append(tried, Attempt("ocr", FALSE, <<>>))
              /\ pc' = "returned"
              /\ ret' = OnFailure
              /\ max_pages' = max_pages
         ELSE /\ tried' = tried
              /\ pc' = "ocr_loop"
              /\ ret' = ret
              /\ max_pages' = MaxPagesOf(doc)
    /\ ocr_i' = 0
    /\ UNCHANGED <<path, doc, fitz_installed, ocr_texts, ocr_pages>>
    /\ UNCHANGED <<cleanVars, analyzeVars>>

\* one iteration of `for i in range(max_pages)`
OcrPage ==
    /\ pc = "ocr_loop"
    /\ ocr_i < max_pages
    /\ \E outcome \in {Raises, doc[ocr_i + 1].ocr} :
         IF outcome.kind = "raise"
         THEN /\ tried' = Append(tried, Attempt("ocr", FALSE, <<>>))
              /\ pc' = "returned"
              /\ ret' = OnFailure
              /\ UNCHANGED <<ocr_texts, ocr_pages, ocr_i>>
         ELSE /\ ocr_texts' = Append(ocr_texts, OrEmpty(outcome))
              /\ ocr_pages' = Append(ocr_pages, ocr_i + 1)
              /\ IF OcrEnough(ocr_texts')
                 THEN pc' = "ocr_return" /\ ocr_i' = ocr_i
                 ELSE pc' = "ocr_loop" /\ ocr_i' = ocr_i + 1
              /\ UNCHANGED <<tried, ret>>
    /\ UNCHANGED <<path, doc, fitz_installed, max_pages>>
    /\ UNCHANGED <<cleanVars, analyzeVars>>

\* the loop is over: return "\n".join(ocr_texts)
OcrReturn ==
    /\ \/ pc = "ocr_return"
       \/ pc = "ocr_loop" /\ ocr_i >= max_pages
    /\ tried' = Append(tried, Attempt("ocr", TRUE, Join(ocr_texts, <<LF>>)))
    /\ pc' = "returned"
    /\ ret' = Returned(Join(ocr_texts, <<LF>>))
    /\ UNCHANGED <<path, doc, fitz_installed, ocr_texts, ocr_pages, ocr_i, max_pages>>
    /\ UNCHANGED <<cleanVars, analyzeVars>>

\* extract_text_from_image
ExtractImage ==
    /\ pc = "image"
    /\ \E outcome \in OcrOutcomes :
         IF outcome.kind = "raise"
         THEN tried' = Append(tried, Attempt("image", FALSE, <<>>)) /\ ret' = OnFailure
         ELSE /\ tried' = Append(tried, Attempt("image", TRUE, OrEmpty(outcome)))
              /\ ret' = Returned(OrEmpty(outcome))
    /\ pc' = "returned"
    /\ UNCHANGED <<path, doc, fitz_installed, ocr_texts, ocr_pages, ocr_i, max_pages>>
    /\ UNCHANGED <<cleanVars, analyzeVars>>

\* extract_text_from_docx
ExtractDocx ==
    /\ pc = "docx"
    /\ \E outcome \in OcrOutcomes :
         IF outcome.kind = "raise"
         THEN tried' = Append(tried, Attempt("docx", FALSE, <<>>)) /\ ret' = OnFailure
         ELSE /\ tried' = Append(tried, Attempt("docx", TRUE, OrEmpty(outcome)))
              /\ ret' = Returned(OrEmpty(outcome))
    /\ pc' = "returned"
    /\ UNCHANGED <<path, doc, fitz_installed, ocr_texts, ocr_pages, ocr_i, max_pages>>
    /\ UNCHANGED <<cleanVars, analyzeVars>>

NextExtract ==
    \/ DispatchPath
    \/ TryFitz
    \/ TryPlumber
    \/ TryMiner
    \/ OcrSetup
    \/ OcrPage
    \/ OcrReturn
    \/ ExtractImage
    \/ ExtractDocx

SpecExtract == InitExtract /\ [][NextExtract]_vars

\* a call that can take a step eventually takes it
FairExtract == SpecExtract /\ WF_vars(NextExtract)

----------------------------------------------------------------------------
(* Properties of analyze_resume (SpecAnalyze) *)

Done == apc = "done"

InBand(wc) == 350 <= wc /\ wc <= 600

AllSections(sections) ==
    sections.education /\ sections.experience /\ sections.skills /\ sections.projects

\* C1: the score is an integer in 0..100, it is the sum of the four sub-scores
\* (keywords 0..40 at 4 per hit up to 10 hits, structure 0..20 at 5 per section,
\* action verbs 0..20 at 2 per hit up to 10 hits, word count 0, 10 or 20), and
\* the clamp to 0..100 leaves the rounded total as it is.
C1_ScoreIsSumInRange ==
    Done =>
        LET d == result.details
        IN  /\ result.score \in 0..100
            /\ result.total \in 0..100
            /\ result.score = result.total
            /\ d.score_keywords_40 \in 0..40
            /\ d.score_structure_20 \in 0..20
            /\ d.score_action_verbs_20 \in 0..20
            /\ d.score_word_count_20 \in 0..20
            /\ d.score_keywords_40 = 4 * (IF d.keyword_hits > 10 THEN 10 ELSE d.keyword_hits)
            /\ d.score_structure_20 = 5 * d.sections_present
            /\ d.score_action_verbs_20 = 2 * (IF d.action_verbs > 10 THEN 10 ELSE d.action_verbs)
            /\ result.score = d.score_keywords_40 + d.score_structure_20
                              + d.score_action_verbs_20 + d.score_word_count_20

\* a resume reaching the maximum: every sub-score saturated
C1_Witness ==
    /\ Done
    /\ result.score = 100
    /\ result.details.keyword_hits > 10
    /\ result.details.action_verbs > 10

\* the suggestions the claim lists, in its order, for the signals of the result
C2_Triggered ==
    LET d == result.details
        sec == result.sections
    IN  <<d.keyword_hits < 6, ~sec.education, ~sec.experience, ~sec.skills, ~sec.projects,
          d.action_verbs < 5, ~InBand(d.word_count), ~sec.bullets>>

C2_Texts ==
    <<SuggestKeywords, SuggestSection.education, SuggestSection.experience,
      SuggestSection.skills, SuggestSection.projects, SuggestImpact, SuggestLength,
      SuggestBullets>>

C2_InOrder ==
    LET on == SelectSeq([k \in 1..8 |-> k], LAMBDA k : C2_Triggered[k])
    IN  [j \in 1..Len(on) |-> C2_Texts[on[j]]]

C2_AllFiveCategories ==
    /\ C2_Triggered[1]
    /\ C2_Triggered[2] \/ C2_Triggered[3] \/ C2_Triggered[4] \/ C2_Triggered[5]
    /\ C2_Triggered[6]
    /\ C2_Triggered[7]
    /\ C2_Triggered[8]

\* C2: the returned suggestions are at most three, namely the first three (or
\* all, if fewer) of: keywords, missing Education, Experience, Skills, Projects,
\* impact language, length, bullets; when all five categories trigger exactly
\* three are returned.
C2_FirstThreeInOrder ==
    Done =>
        /\ Len(result.suggestions) <= 3
        /\ Len(result.suggestions) = (IF Len(C2_InOrder) < 3 THEN Len(C2_InOrder) ELSE 3)
        /\ \A k \in 1..Len(result.suggestions) : result.suggestions[k] = C2_InOrder[k]
        /\ C2_AllFiveCategories => Len(result.suggestions) = 3

\* all five categories trigger and the later ones are cut
C2_Witness ==
    /\ Done
    /\ C2_AllFiveCategories
    /\ Len(result.generated) > 3
    /\ Len(result.suggestions) = 3

\* C5 as stated: for the empty text the score is 0 and the returned suggestions
\* hold the length suggestion and a structure suggestion.
C5_EmptyTextAsStated ==
    (Done /\ text = <<>>) =>
        /\ result.score = 0
        /\ \E k \in 1..Len(result.suggestions) : result.suggestions[k] = SuggestLength
        /\ \E k \in 1..Len(result.suggestions) :
               result.suggestions[k] \in {SuggestSection[sec] : sec \in structure_components}

\* C5 amended: for the empty text the score is 0 and the returned suggestions
\* are the keywords one and the Education and Experience structure ones; the
\* length suggestion is generated but cut by the limit of three.
C5_EmptyText ==
    (Done /\ text = <<>>) =>
        /\ result.score = 0
        /\ result.suggestions = <<SuggestKeywords, SuggestSection.education,
                                  SuggestSection.experience>>
        /\ \E k \in 4..Len(result.generated) : result.generated[k] = SuggestLength

C5_Witness ==
    /\ Done
    /\ text = <<>>
    /\ result.details.word_count = 0
    /\ Len(result.suggestions) = 3

\* C6 as stated: keyword_hits and action_hits never exceed 20.
C6_HitsAtMost20 ==
    Done => result.details.keyword_hits \in 0..20 /\ result.details.action_verbs \in 0..20

\* C6 amended: keyword_hits lies in 0..22, the keyword list having 22 entries,
\* and action_hits lies in 0..20.
C6_HitsWithinVocabulary ==
    Done => result.details.keyword_hits \in 0..22 /\ result.details.action_verbs \in 0..20

\* every keyword and every verb is hit
C6_Witness ==
    /\ Done
    /\ result.details.keyword_hits = 22
    /\ result.details.action_verbs = 20

C7_Strong ==
    /\ Done
    /\ AllSections(result.sections)
    /\ result.details.action_verbs >= 5
    /\ result.details.keyword_hits >= 6
    /\ InBand(result.details.word_count)

C7_Scenario ==
    /\ result.details.keyword_hits = 12
    /\ result.details.action_verbs = 8
    /\ result.details.word_count = 500

C7_ScenarioScores ==
    /\ result.details.score_keywords_40 = 40
    /\ result.details.score_structure_20 = 20
    /\ result.details.score_action_verbs_20 = 16
    /\ result.details.score_word_count_20 = 20
    /\ result.score = 96

\* C7 as stated: with all four sections, at least 5 verbs, at least 6 keywords
\* and a word count in 350..600 no suggestion is generated; with 12 keywords,
\* 8 verbs and 500 words the sub-scores are 40, 20, 16, 20 and the total 96.
C7_NoSuggestionsAsStated ==
    C7_Strong =>
        /\ result.generated = <<>>
        /\ result.suggestions = <<>>
        /\ C7_Scenario => C7_ScenarioScores

\* C7 amended: under the same conditions no suggestion is generated when the
\* text also has a bullet glyph, and only the readability one when it has
\* none; the scores of the 12/8/500 scenario are as stated.
C7_NoSuggestions ==
    C7_Strong =>
        /\ result.sections.bullets => result.generated = <<>> /\ result.suggestions = <<>>
        /\ ~result.sections.bullets => result.suggestions = <<SuggestBullets>>
        /\ C7_Scenario => C7_ScenarioScores

\* the 12/8/500 scenario with bullets
C7_Witness ==
    /\ C7_Strong
    /\ C7_Scenario
    /\ result.sections.bullets
    /\ result.suggestions = <<>>

----------------------------------------------------------------------------
(* Properties of _clean_extracted_text (SpecClean) *)

\* C8: cleaning a cleaned text changes nothing, also when the text had lines
\* repeated 6 times or more and when it is empty.
C8_Idempotent == cpc = "recleaned" => recleaned = cleaned

\* the first cleaning dropped repeated lines and left some text
C8_Witness ==
    /\ cpc = "recleaned"
    /\ cleaned # <<>>
    /\ \E k \in 1..Len(TrimmedLines(raw_text)) :
           LineCount(TrimmedLines(raw_text), TrimmedLines(raw_text)[k]) >= 6
    /\ Len(filtered) < Len(SelectSeq(TrimmedLines(raw_text), LAMBDA ln : ln # <<>>))

----------------------------------------------------------------------------
(* Properties of the extraction chain (SpecExtract) *)

StrategyOrder == <<"fitz", "plumber", "miner", "ocr">>

IsPdf == Dispatch(path) = "fitz"

\* the attempt completed and its text has the words its strategy asks for
C3_Meets(a) ==
    /\ a.completed
    /\ \/ a.strategy = "fitz" /\ SplitCount(a.text) >= 50
       \/ a.strategy = "plumber" /\ SplitCount(a.text) >= 20
       \/ a.strategy = "miner" /\ SplitCount(a.text) >= 20

\* C3: the strategies run in the order PyMuPDF, pdfplumber, pdfminer, OCR; a
\* strategy runs only after every earlier one failed or fell below its
\* threshold (50, 20, 20 whitespace-separated words); the text returned is
\* that of the first strategy that completed and met its threshold, or that
\* of the OCR when none of the three did.
C3_FirstAcceptedInOrder ==
    IsPdf =>
        /\ Len(tried) <= 4
        /\ \A k \in 1..Len(tried) : tried[k].strategy = StrategyOrder[k]
        /\ \A k \in 1..(Len(tried) - 1) : ~C3_Meets(tried[k])
        /\ (pc # "returned" /\ tried # <<>>) => ~C3_Meets(tried[Len(tried)])
        /\ pc = "returned" =>
              /\ tried # <<>>
              /\ tried[Len(tried)].strategy # "ocr" => C3_Meets(tried[Len(tried)])
              /\ ret.value = tried[Len(tried)].text

\* PyMuPDF was rejected, pdfplumber failed or was rejected, pdfminer is returned
C3_Witness ==
    /\ IsPdf
    /\ pc = "returned"
    /\ Len(tried) = 3
    /\ tried[1].completed
    /\ tried[1].text # <<>>
    /\ C3_Meets(tried[3])
    /\ ret.value = tried[3].text

KnownSuffixes == {PdfSuffix, DocxSuffix} \cup ImageSuffixes

\* C4: extract_text_auto returns a str and never raises; the str is empty when
\* the lowercased suffix is none of .pdf/.jpg/.jpeg/.png/.docx, when the image
\* or DOCX extractor fails, and when the OCR, reached after the three text
\* strategies gave nothing, fails or has no engine.
C4_TotalExtraction ==
    /\ ~ret.raised
    /\ pc = "returned" =>
          /\ ret.value \in Seq({"w", LF})
          /\ Lower(Suffix(path)) \notin KnownSuffixes => ret.value = <<>>
          /\ (tried # <<>> /\ ~tried[Len(tried)].completed) => ret.value = <<>>

\* every strategy of the PDF chain failed
C4_Witness ==
    /\ pc = "returned"
    /\ IsPdf
    /\ Len(tried) = 4
    /\ \A k \in 1..4 : ~tried[k].completed
    /\ ret = Returned(<<>>)

OcrRan == tried # <<>> /\ tried[Len(tried)].strategy = "ocr"

C10_Loop ==
    /\ Len(ocr_pages) <= 3
    /\ Len(ocr_pages) <= Len(doc)
    /\ \A k \in 1..Len(ocr_pages) : ocr_pages[k] = k
    /\ Len(ocr_texts) = Len(ocr_pages)
    /\ \A k \in 1..Len(ocr_texts) : ocr_texts[k] = OrEmpty(doc[k].ocr)
    /\ \A k \in 1..(Len(ocr_texts) - 1) :
           SplitCount(Join(SubSeq(ocr_texts, 1, k), <<SP>>)) < 150

\* C10 as stated: pages are OCRed in index order from the first, at most
\* min(3, page_count) of them, none after the OCRed words reached 150, and the
\* text returned by the OCR fallback is the pages OCRed, joined.
C10_OcrAsStated ==
    /\ C10_Loop
    /\ (pc = "returned" /\ OcrRan) => ret.value = Join(ocr_texts, <<LF>>)

C10_Returns ==
    (pc = "returned" /\ OcrRan) =>
        IF tried[Len(tried)].completed
        THEN ret.value = Join(ocr_texts, <<LF>>)
        ELSE ret.value = <<>>

\* C10 amended: pages are OCRed in index order from the first, at most
\* min(3, page_count) of them, none after the OCRed words reached 150; the
\* call always returns; when no OCR step fails the text returned is the pages
\* OCRed, joined by newlines, and when one fails it is the empty string.
C10_OcrLoop == [](C10_Loop /\ C10_Returns) /\ <>(pc = "returned")

\* the loop stops after two of four pages, at 150 words
C10_Witness ==
    /\ pc = "returned"
    /\ OcrRan
    /\ Len(doc) = 4
    /\ Len(ocr_pages) = 2
    /\ SplitCount(ret.value) = 150

====
